---- MODULE Spec2Model ----
(***************************************************************************)
(* A model of geosatpy.GeoProcess (src/geosatpy.py): the raster            *)
(* geoprocessing operations asArray, buildVRT, vrtToTiff, merge, tiling,   *)
(* resizing, crop and save_tiff, acting on a file system through the GDAL  *)
(* python bindings.                                                        *)
(*                                                                         *)
(* The code is single threaded and keeps no state between calls, so the    *)
(* state is the file system plus a record of the last call: its arguments, *)
(* how it ended (returned / raised) and the library calls it made.  Every  *)
(* action is one whole call of a public method on a GeoProcess instance.   *)
(*                                                                         *)
(* Arrays are modelled by their shape.  Python's None and every optional   *)
(* value are sequences of length at most one: None is << >>, a value v     *)
(* that is set is <<v>>.  A numpy shape is the tuple of its dimensions.    *)
(*                                                                         *)
(* GDAL is used as the module imports it: exceptions are not enabled, so   *)
(* a failing gdal.Open / gdal.Translate / gdal.Warp returns None; that is  *)
(* also what asArray's own test "data is not None" relies on.              *)
(***************************************************************************)
EXTENDS Integers, Sequences, FiniteSets, TLC

VARIABLES fs, last, calls

vars == <<fs, last, calls>>

(***************************************************************************)
(* Bounds of the model.                                                    *)
(***************************************************************************)
\* largest extent (width, height) of the raster that is tiled, and largest
\* tile size
MaxExtent == 3
\* largest height and width of an array handed to save_tiff
MaxDim == 2
\* largest band count of an array handed to save_tiff
MaxBands == 2
\* largest value of width, height, xRes, yRes handed to resizing
MaxVal == 1

(***************************************************************************)
(* Python values.                                                          *)
(***************************************************************************)
None == << >>

Some(v) == <<v>>

\* the dtype strings callers pass; "Int16" is one the if-chains do not know
Dtypes == {"Float32", "Float64", "UInt16", "Byte", "Int16"}

(***************************************************************************)
(* The file system.                                                        *)
(***************************************************************************)
\* '{}_{}.tif'.format: the name of tile number `tile` under prefix dst
TileName(dst, tile) == dst \o "_" \o ToString(tile) \o ".tif"

TilePaths == {TileName("out", k) : k \in 1..(MaxExtent * MaxExtent)}

NamedPaths == {"src.tif", "ref.tif", "new.tif", "a.tif", "b.tif",
               "tmp.vrt", "dst.tif", "missing.tif", "cut.shp"}

Paths == NamedPaths \cup TilePaths

Absent == [kind |-> "absent"]

\* a raster file: by is the call that created it, origin what it was made
\* from (the numpy shape for save_tiff, the window for Translate, ...),
\* complete whether the creating call finished writing it
RasterFile(xsize, ysize, bands, by, origin, complete) ==
    [kind |-> "raster", xsize |-> xsize, ysize |-> ysize, bands |-> bands,
     by |-> by, origin |-> origin, complete |-> complete]

\* a raster that some other tool put there
External(xsize, ysize, bands) ==
    RasterFile(xsize, ysize, bands, "external", << >>, TRUE)

\* a virtual mosaic descriptor: the source paths it references
VrtFile(sources) == [kind |-> "vrt", sources |-> sources]

\* a vector file holding a cutline geometry whose envelope covers
\* xsize x ysize pixels of the raster it is used on
VectorFile(xsize, ysize) == [kind |-> "vector", xsize |-> xsize, ysize |-> ysize]

\* what a failed write may leave behind: a file that is no readable raster
Partial == [kind |-> "partial"]

\* os.path.isfile
isfile(f, path) == path \in DOMAIN f /\ f[path].kind # "absent"

EmptyFS == [p \in Paths |-> Absent]

(***************************************************************************)
(* How a call ends.                                                        *)
(***************************************************************************)
Return(ret, f, cs) ==
    [outcome |-> "returned", exc |-> "", ret |-> ret, fs |-> f, calls |-> cs]

Raise(exc, f, cs) ==
    [outcome |-> "raised", exc |-> exc, ret |-> None, fs |-> f, calls |-> cs]

\* a library or os call made by an operation
LibCall(fn, dst, src, opt) == [fn |-> fn, dst |-> dst, src |-> src, opt |-> opt]

\* Python binds the positional arguments of a call to a def's parameters:
\* too few or too many is a TypeError.  sig.required counts the parameters
\* without a default (self included), sig.optional those with one.
BindsArgs(sig, nargs) ==
    /\ nargs >= sig.required
    /\ nargs <= sig.required + sig.optional

\* def asArray(self, path, band = None)
asArray_sig == [required |-> 2, optional |-> 1]

\* def buildVRT(self, list_files, dst)
buildVRT_sig == [required |-> 3, optional |-> 0]

\* def vrtToTiff(self, vrtFile, dst)
vrtToTiff_sig == [required |-> 3, optional |-> 0]

\* the if-chain that selects the GDAL output type; an unknown dtype leaves
\* the local outputType unbound (None here), and the first read of it
\* raises UnboundLocalError
OutputType(dtype) ==
    CASE dtype = "Float32" -> Some("GDT_Float32")
      [] dtype = "Float64" -> Some("GDT_Float64")
      [] dtype = "UInt16"  -> Some("GDT_UInt16")
      [] dtype = "Byte"    -> Some("GDT_Byte")
      [] OTHER             -> None

(***************************************************************************)
(* GDAL and numpy primitives the code calls.                               *)
(***************************************************************************)
\* gdal.Open(path, GA_ReadOnly): the dataset, or None when the path holds
\* no raster that can be opened
gdal_Open(f, path) ==
    IF path \in DOMAIN f /\ f[path].kind = "raster" THEN Some(f[path]) ELSE None

\* Dataset.ReadAsArray().shape: (bands, ysize, xsize), and (ysize, xsize)
\* for a single band
ReadAsArray(ds) ==
    IF ds.bands > 1 THEN <<ds.bands, ds.ysize, ds.xsize>>
    ELSE <<ds.ysize, ds.xsize>>

\* np.dstack of a rank 3 array: its planes along the first axis are stacked
\* along a new last axis
np_dstack(shape) == <<shape[2], shape[3], shape[1]>>

\* Dataset.GetRasterBand(band): None for a band number out of range
GetRasterBand(ds, band) ==
    IF band \in 1..ds.bands THEN Some(<<ds.ysize, ds.xsize>>) ELSE None

(***************************************************************************)
(* GeoProcess.asArray (lines 79-110)                                       *)
(***************************************************************************)
asArrayRun(f, path, band) ==
    LET data == gdal_Open(f, path) IN
    IF data # None
    THEN LET ds == data[1]
             num_bands == ds.bands
         IN IF band = None
            THEN IF num_bands > 1
                 THEN Return(np_dstack(ReadAsArray(ds)), f, << >>)
                 ELSE Return(ReadAsArray(ds), f, << >>)
            ELSE LET b == GetRasterBand(ds, band[1])
                 IN IF b = None
                    THEN Raise("AttributeError", f, << >>)
                    ELSE Return(b[1], f, << >>)
    \* return print('No data in ...'): print returns None
    ELSE Return(None, f, << >>)

(***************************************************************************)
(* GeoProcess.save_tiff (lines 320-370)                                    *)
(***************************************************************************)
\* gdal_array.BandWriteArray accepts arrays of rank 2 only
BandWriteArrayOk(shape) == Len(shape) = 2

save_tiffRun(f, dst_filename, shape, ref_proj, ref_geom, dtype, nodata_value) ==
    LET proj_ref == gdal_Open(f, ref_proj)
        geom_ref == gdal_Open(f, ref_geom)
        cols == shape[1]
        rows == shape[2]
        bands == IF Len(shape) = 2 THEN 1 ELSE shape[3]
        outputType == OutputType(dtype)
        create == LibCall("Create", dst_filename, "", <<rows, cols, bands>>)
        file(done) == RasterFile(rows, cols, bands, "save_tiff", shape, done)
        created == [f EXCEPT ![dst_filename] = file(FALSE)]
        written == [f EXCEPT ![dst_filename] = file(TRUE)]
    IN  IF outputType = None
        THEN Raise("UnboundLocalError", f, << >>)
        ELSE IF geom_ref = None \/ proj_ref = None
        THEN Raise("AttributeError", created, <<create>>)
        ELSE IF bands > 1
        THEN Return(None, written, <<create>>)
        ELSE IF BandWriteArrayOk(shape)
        THEN Return(None, written, <<create>>)
        ELSE Raise("ValueError", created, <<create>>)

(***************************************************************************)
(* GeoProcess.buildVRT (lines 112-129)                                     *)
(***************************************************************************)
\* gdal.BuildVRT skips the sources it cannot open and writes no descriptor
\* when none is left; the descriptor references the others by path
buildVRTRun(f, list_files, dst) ==
    LET usable == SelectSeq(list_files, LAMBDA p : gdal_Open(f, p) # None)
        call == LibCall("BuildVRT", dst, "", list_files)
    IN  IF usable = << >>
        THEN Return(None, f, <<call>>)
        ELSE Return(None, [f EXCEPT ![dst] = VrtFile(usable)], <<call>>)

(***************************************************************************)
(* GeoProcess.vrtToTiff (lines 131-148)                                    *)
(***************************************************************************)
\* the largest number of a non-empty set
MaxOf(S) == CHOOSE m \in S : \A x \in S : x <= m

\* can the descriptor or raster at path be rendered: every source a
\* descriptor references must still be a raster
Renderable(f, path) ==
    /\ path \in DOMAIN f
    /\ \/ f[path].kind = "raster"
       \/ /\ f[path].kind = "vrt"
          /\ \A k \in 1..Len(f[path].sources) :
                 gdal_Open(f, f[path].sources[k]) # None

\* the raster gdal.Translate(format = 'GTiff') renders from vrtFile
Rendered(f, vrtFile) ==
    IF f[vrtFile].kind = "raster"
    THEN RasterFile(f[vrtFile].xsize, f[vrtFile].ysize, f[vrtFile].bands,
                    "Translate", <<vrtFile>>, TRUE)
    ELSE LET srcs == {f[f[vrtFile].sources[k]] :
                         k \in 1..Len(f[vrtFile].sources)}
         IN RasterFile(MaxOf({r.xsize : r \in srcs}),
                       MaxOf({r.ysize : r \in srcs}),
                       MaxOf({r.bands : r \in srcs}),
                       "Translate", f[vrtFile].sources, TRUE)

\* The outcomes of vrtToTiff.  A failing gdal.Translate returns None and
\* raises nothing; whether it leaves a partial destination behind is the
\* library's choice, so both are outcomes.
vrtToTiffRuns(f, vrtFile, dst) ==
    LET call == LibCall("Translate", dst, vrtFile, << >>)
    IN  IF Renderable(f, vrtFile)
        THEN {Return(None, [f EXCEPT ![dst] = Rendered(f, vrtFile)], <<call>>)}
        ELSE IF isfile(f, vrtFile) /\ f[vrtFile].kind = "vrt"
        THEN {Return(None, f, <<call>>),
              Return(None, [f EXCEPT ![dst] = Partial], <<call>>)}
        ELSE {Return(None, f, <<call>>)}

(***************************************************************************)
(* GeoProcess.merge (lines 150-169)                                        *)
(***************************************************************************)
\* os.remove(vrt)
os_remove(r, vrt) ==
    IF isfile(r.fs, vrt)
    THEN Return(None, [r.fs EXCEPT ![vrt] = Absent],
                Append(r.calls, LibCall("remove", vrt, "", << >>)))
    ELSE Raise("FileNotFoundError", r.fs, r.calls)

\* Lines 167 and 168 call buildVRT and vrtToTiff through the class, as
\* plain functions, with two positional arguments: Python binds the first
\* to self and the second to the first real parameter, and the last
\* parameter (dst) is left without a value.
mergeRuns(f, list_files, vrt, dst) ==
    IF ~BindsArgs(buildVRT_sig, 2)
    THEN {Raise("TypeError", f, << >>)}
    ELSE LET r1 == buildVRTRun(f, list_files, vrt)
         IN IF ~BindsArgs(vrtToTiff_sig, 2)
            THEN {Raise("TypeError", r1.fs, r1.calls)}
            ELSE {os_remove([r2 EXCEPT !.calls = r1.calls \o r2.calls], vrt) :
                     r2 \in vrtToTiffRuns(r1.fs, vrt, dst)}

(***************************************************************************)
(* GeoProcess.tiling (lines 171-223)                                       *)
(***************************************************************************)
\* range(start, stop, step) for step > 0
RECURSIVE PyRange(_, _, _)
PyRange(start, stop, step) ==
    IF start >= stop THEN << >>
    ELSE <<start>> \o PyRange(start + step, stop, step)

\* lines 213-214: the (i, j) pairs in the order the nested loops visit them
RECURSIVE Pairs(_, _)
Pairs(is, js) ==
    IF is = << >> THEN << >>
    ELSE [k \in 1..Len(js) |-> <<is[1], js[k]>>] \o Pairs(Tail(is), js)

Windows(w, h, size_w, size_h) ==
    Pairs(PyRange(0, w, size_w), PyRange(0, h, size_h))

\* gdal.Translate(srcWin = [i, j, size_w, size_h]): the tile file is
\* created with the extent of the window as requested
TileFile(ds, srcWin) ==
    RasterFile(srcWin[3], srcWin[4], ds.bands, "Translate", srcWin, TRUE)

\* lines 215-223, for the windows wins left to visit; tile is the counter,
\* r the file system and calls so far
RECURSIVE TilingLoop(_, _, _, _, _, _, _, _)
TilingLoop(wins, tile, r, src, dst, size_w, size_h, outputType) ==
    IF wins = << >> THEN r
    ELSE LET i == wins[1][1]
             j == wins[1][2]
             tile1 == tile + 1
             destName == TileName(dst, tile1)
             probe == LibCall("isfile", destName, "", <<i, j, tile1>>)
             srcWin == <<i, j, size_w, size_h>>
             write == LibCall("Translate", destName, src, srcWin)
         IN IF ~isfile(r.fs, destName)
            THEN IF outputType = None
                 THEN Raise("UnboundLocalError", r.fs, Append(r.calls, probe))
                 ELSE TilingLoop(Tail(wins), tile1,
                         Return(None,
                                [r.fs EXCEPT ![destName] =
                                    TileFile(gdal_Open(r.fs, src)[1], srcWin)],
                                r.calls \o <<probe, write>>),
                         src, dst, size_w, size_h, outputType)
            ELSE TilingLoop(Tail(wins), tile1,
                            Return(None, r.fs, Append(r.calls, probe)),
                            src, dst, size_w, size_h, outputType)

\* Line 199 calls asArray through the class, as a plain function, with the
\* one positional argument src: Python binds it to self, and path is left
\* without a value.
tilingRun(f, src, dst, size_w, size_h, dtype, noData) ==
    IF ~BindsArgs(asArray_sig, 1)
    THEN Raise("TypeError", f, << >>)
    ELSE LET a == asArrayRun(f, src, None)
             im == a.ret
             outputType == OutputType(dtype)
         IN IF a.outcome = "raised" THEN a
            \* None has no attribute shape
            ELSE IF im = None THEN Raise("AttributeError", f, << >>)
            ELSE LET h == im[1]
                     w == im[2]
                 IN IF size_w = 0 \/ (w > 0 /\ size_h = 0)
                    THEN Raise("ValueError", f, << >>)
                    ELSE TilingLoop(Windows(w, h, size_w, size_h), 0,
                                    Return(None, f, << >>),
                                    src, dst, size_w, size_h, outputType)

(***************************************************************************)
(* GeoProcess.resizing (lines 225-281)                                     *)
(***************************************************************************)
DimensionGuardEither(width, height, xRes, yRes) == xRes = None \/ yRes = None

\* line 264-265: the guard of the target-dimension warp
DimensionGuard(width, height, xRes, yRes) == xRes = None /\ yRes = None

\* line 273-274: the guard of the target-resolution warp
ResolutionGuard(width, height, xRes, yRes) == width = None /\ height = None

\* gdal.Warp(dst, src, ...): resamples src into dst; with a source that
\* cannot be opened it returns None and writes nothing.  The output keeps
\* the band count; a target dimension that is set is the output's, one
\* that is not is left at the source's here.
gdal_Warp(r, dst, src, mode, a, b) ==
    LET call == LibCall("Warp", dst, src, <<mode, a, b>>)
        data == gdal_Open(r.fs, src)
        xs == IF mode = "dimension" /\ a # None THEN a[1] ELSE data[1].xsize
        ys == IF mode = "dimension" /\ b # None THEN b[1] ELSE data[1].ysize
    IN  IF data = None
        THEN Return(None, r.fs, Append(r.calls, call))
        ELSE Return(None,
                    [r.fs EXCEPT ![dst] =
                        RasterFile(xs, ys, data[1].bands, "Warp",
                                   <<mode, a, b>>, TRUE)],
                    Append(r.calls, call))

resizingRun(f, src, dst, width, height, xRes, yRes, dtype) ==
    LET outputType == OutputType(dtype)
        r0 == Return(None, f, << >>)
        r1 == IF DimensionGuard(width, height, xRes, yRes)
              THEN IF outputType = None
                   THEN Raise("UnboundLocalError", f, << >>)
                   ELSE gdal_Warp(r0, dst, src, "dimension", width, height)
              ELSE r0
    IN  IF r1.outcome = "raised" THEN r1
        ELSE IF ResolutionGuard(width, height, xRes, yRes)
        THEN IF outputType = None
             THEN Raise("UnboundLocalError", r1.fs, r1.calls)
             ELSE gdal_Warp(r1, dst, src, "resolution", xRes, yRes)
        ELSE r1

(***************************************************************************)
(* GeoProcess.crop (lines 284-318)                                         *)
(***************************************************************************)
\* gdal.Warp(dst, src, cutlineDSName = vec, cropToCutline = True, ...):
\* warps src into dst cut to the envelope of the cutline; with a source or
\* a cutline that cannot be opened it returns None and writes nothing
gdal_WarpCutline(f, dst, src, vec) ==
    LET call == LibCall("Warp", dst, src, <<"cutline", vec>>)
        data == gdal_Open(f, src)
    IN  IF data = None \/ ~(vec \in DOMAIN f /\ f[vec].kind = "vector")
        THEN Return(None, f, <<call>>)
        ELSE Return(None,
                    [f EXCEPT ![dst] =
                        RasterFile(f[vec].xsize, f[vec].ysize, data[1].bands,
                                   "Warp", <<"cutline", vec>>, TRUE)],
                    <<call>>)

cropRun(f, src, dst, vec, dtype) ==
    LET outputType == OutputType(dtype)
    IN  IF outputType = None
        THEN Raise("UnboundLocalError", f, << >>)
        ELSE gdal_WarpCutline(f, dst, src, vec)

(***************************************************************************)
(* The calls a client makes on a GeoProcess instance.                      *)
(***************************************************************************)
\* the state after operation op, called with args, ended as r
Finish(op, args, r) ==
    /\ fs' = r.fs
    /\ calls' = r.calls
    /\ last' = [op |-> op, args |-> args, outcome |-> r.outcome,
                exc |-> r.exc, ret |-> r.ret, before |-> fs]

asArray(path, band) ==
    \E r \in {asArrayRun(fs, path, band)} :
        Finish("asArray", [path |-> path, band |-> band], r)

save_tiff(dst_filename, nparray, ref_proj, ref_geom, dtype, nodata_value) ==
    \E r \in {save_tiffRun(fs, dst_filename, nparray, ref_proj, ref_geom,
                          dtype, nodata_value)} :
        Finish("save_tiff",
               [dst_filename |-> dst_filename, nparray |-> nparray,
                ref_proj |-> ref_proj, ref_geom |-> ref_geom, dtype |-> dtype,
                nodata_value |-> nodata_value], r)

buildVRT(list_files, dst) ==
    \E r \in {buildVRTRun(fs, list_files, dst)} :
        Finish("buildVRT", [list_files |-> list_files, dst |-> dst], r)

vrtToTiff(vrtFile, dst) ==
    \E r \in vrtToTiffRuns(fs, vrtFile, dst) :
        Finish("vrtToTiff", [vrtFile |-> vrtFile, dst |-> dst], r)

merge(list_files, vrt, dst) ==
    \E r \in mergeRuns(fs, list_files, vrt, dst) :
        Finish("merge", [list_files |-> list_files, vrt |-> vrt, dst |-> dst], r)

tiling(src, dst, size_w, size_h, dtype, noData) ==
    \E r \in {tilingRun(fs, src, dst, size_w, size_h, dtype, noData)} :
        Finish("tiling",
               [src |-> src, dst |-> dst, size_w |-> size_w, size_h |-> size_h,
                dtype |-> dtype, noData |-> noData], r)

resizing(src, dst, width, height, xRes, yRes, dtype) ==
    \E r \in {resizingRun(fs, src, dst, width, height, xRes, yRes, dtype)} :
        Finish("resizing",
               [src |-> src, dst |-> dst, width |-> width, height |-> height,
                xRes |-> xRes, yRes |-> yRes, dtype |-> dtype], r)

crop(src, dst, vec, dtype) ==
    \E r \in {cropRun(fs, src, dst, vec, dtype)} :
        Finish("crop",
               [src |-> src, dst |-> dst, vec |-> vec, dtype |-> dtype], r)

(***************************************************************************)
(* Inputs.                                                                 *)
(***************************************************************************)
Dims == 1..MaxDim

\* numpy shapes of rank 2 (height, width) and rank 3 (height, width, bands)
Shapes == (Dims \X Dims) \cup (Dims \X Dims \X (1..MaxBands))

Optional(S) == {None} \cup {Some(v) : v \in S}

NoCall == [op |-> "none", args |-> << >>, outcome |-> "", exc |-> "",
           ret |-> None, before |-> EmptyFS]

(***************************************************************************)
(* Writing an array and reading it back: save_tiff and asArray.            *)
(***************************************************************************)
RefPairs == {<<"ref.tif", "ref.tif">>, <<"ref.tif", "missing.tif">>,
             <<"missing.tif", "ref.tif">>}

InitRaster ==
    /\ fs = [EmptyFS EXCEPT !["ref.tif"] = External(MaxDim, MaxDim, 1)]
    /\ last = [NoCall EXCEPT !.before = fs]
    /\ calls = << >>

NextRaster ==
    \/ \E nparray \in Shapes, refs \in RefPairs, dtype \in {"Float32", "Int16"} :
           save_tiff("new.tif", nparray, refs[1], refs[2], dtype, "-9999.9")
    \/ \E path \in {"new.tif", "ref.tif", "missing.tif"},
          band \in Optional(1..MaxBands) :
           asArray(path, band)

SpecRaster == InitRaster /\ [][NextRaster]_vars

(***************************************************************************)
(* Tiling a source raster: tiling and asArray.                             *)
(***************************************************************************)
Extents == 1..MaxExtent

InitTiling ==
    /\ \E src \in {Absent} \cup {External(x, y, b) : x \in Extents, y \in Extents, b \in 1..2},
          existing \in SUBSET TilePaths :
           fs = [p \in Paths |->
                    IF p = "src.tif" THEN src
                    ELSE IF p \in existing THEN External(1, 1, 1)
                    ELSE Absent]
    /\ last = [NoCall EXCEPT !.before = fs]
    /\ calls = << >>

NextTiling ==
    \/ \E size_w \in Extents, size_h \in Extents, dtype \in {"Float32", "Int16"} :
           tiling("src.tif", "out", size_w, size_h, dtype, None)
    \/ \E path \in {"src.tif", "missing.tif"}, band \in Optional(1..2) :
           asArray(path, band)

SpecTiling == InitTiling /\ [][NextTiling]_vars

(***************************************************************************)
(* Mosaicking: buildVRT, vrtToTiff and merge.                              *)
(***************************************************************************)
SourceLists == {<<"a.tif">>, <<"b.tif">>, <<"a.tif", "b.tif">>, <<"b.tif", "a.tif">>}

InitMerge ==
    /\ \E a, b, d \in {Absent, External(2, 2, 1)},
          v \in {Absent} \cup {VrtFile(l) : l \in SourceLists} :
           fs = [p \in Paths |->
                    CASE p = "a.tif" -> a
                      [] p = "b.tif" -> b
                      [] p = "dst.tif" -> d
                      [] p = "tmp.vrt" -> v
                      [] OTHER -> Absent]
    /\ last = [NoCall EXCEPT !.before = fs]
    /\ calls = << >>

NextMerge ==
    \/ \E list_files \in SourceLists : buildVRT(list_files, "tmp.vrt")
    \/ vrtToTiff("tmp.vrt", "dst.tif")
    \/ \E list_files \in SourceLists : merge(list_files, "tmp.vrt", "dst.tif")

SpecMerge == InitMerge /\ [][NextMerge]_vars

(***************************************************************************)
(* Resampling and cropping: resizing and crop.                             *)
(***************************************************************************)
InitResize ==
    /\ \E s, d \in {Absent, External(MaxDim, MaxDim, 1)},
          v \in {Absent, VectorFile(1, 1)} :
           fs = [p \in Paths |->
                    CASE p = "src.tif" -> s
                      [] p = "dst.tif" -> d
                      [] p = "cut.shp" -> v
                      [] OTHER -> Absent]
    /\ last = [NoCall EXCEPT !.before = fs]
    /\ calls = << >>

NextResize ==
    \/ \E width, height, xRes, yRes \in Optional(1..MaxVal), dtype \in Dtypes :
           resizing("src.tif", "dst.tif", width, height, xRes, yRes, dtype)
    \/ \E dtype \in Dtypes : crop("src.tif", "dst.tif", "cut.shp", dtype)

SpecResize == InitResize /\ [][NextResize]_vars

(***************************************************************************)
(* The whole program.                                                      *)
(***************************************************************************)
Init == InitRaster \/ InitTiling \/ InitMerge \/ InitResize

Next == NextRaster \/ NextTiling \/ NextMerge \/ NextResize

Spec == Init /\ [][Next]_vars

(***************************************************************************)
(* Properties.                                                             *)
(***************************************************************************)
Ceil(a, b) == (a + b - 1) \div b

Min(a, b) == IF a <= b THEN a ELSE b

KnownDtype(dtype) == dtype \in {"Float32", "Float64", "UInt16", "Byte"}

\* the calls of the last operation to library function fn, in order
CallsTo(fn) == SelectSeq(calls, LAMBDA c : c.fn = fn)

\* the last call was tiling of a source that could be opened, with a dtype
\* the code knows
TiledSource ==
    /\ last.op = "tiling"
    /\ gdal_Open(last.before, last.args.src) # None
    /\ KnownDtype(last.args.dtype)

SourceW == last.before[last.args.src].xsize

SourceH == last.before[last.args.src].ysize

\* N, the number of cells of the tile grid
GridSize ==
    Ceil(SourceW, last.args.size_w) * Ceil(SourceH, last.args.size_h)

TileFilesIn(f) == {p \in TilePaths : isfile(f, p)}

\* C1: a tiling call with 0 < tileWidth < W and 0 < tileHeight < H that
\* starts with no tile file under the prefix ends with exactly
\* ceil(W/tileWidth) * ceil(H/tileHeight) tile files.
TileCount ==
    (/\ TiledSource
     /\ last.args.size_w < SourceW
     /\ last.args.size_h < SourceH
     /\ TileFilesIn(last.before) = {})
    => Cardinality(TileFilesIn(fs)) = GridSize

\* C2: a tiling call that finds K of the N tile files performs exactly N-K
\* tile writes, one for each missing index, leaves the K files that exist
\* as they are, and ends with all N tiles present.
TilingResume ==
    TiledSource =>
        LET name(k) == TileName(last.args.dst, k)
            missing == {k \in 1..GridSize : ~isfile(last.before, name(k))}
            writes == CallsTo("Translate")
        IN  /\ Len(writes) = Cardinality(missing)
            /\ {writes[n].dst : n \in 1..Len(writes)} = {name(k) : k \in missing}
            /\ \A k \in (1..GridSize) \ missing : fs[name(k)] = last.before[name(k)]
            /\ \A k \in 1..GridSize : isfile(fs, name(k))

\* C3: the tile index starts at 1 and grows by one on every window visited,
\* written or skipped, width offset outermost: the window at (i, j) is
\* named prefix_{(i/tileWidth) * ceil(H/tileHeight) + j/tileHeight + 1}.tif
\* and the indices used are exactly 1..N, whichever tile files exist.
TileIndexing ==
    TiledSource =>
        LET visited == CallsTo("isfile")
        IN  /\ Len(visited) = GridSize
            /\ \A n \in 1..Len(visited) :
                   LET i == visited[n].opt[1]
                       j == visited[n].opt[2]
                   IN  /\ visited[n].opt[3] = n
                       /\ visited[n].dst =
                            TileName(last.args.dst,
                                     (i \div last.args.size_w)
                                         * Ceil(SourceH, last.args.size_h)
                                       + (j \div last.args.size_h) + 1)

\* C4: every tile of a tiling call has its extent clipped at the source
\* boundary: the tile at offsets (i, j) is min(tileWidth, W - i) wide and
\* min(tileHeight, H - j) high, so a W x H source tiled from scratch gives
\* the N tiles of the grid with edge tiles smaller than interior ones.
TileExtentsClipped ==
    (TiledSource /\ TileFilesIn(last.before) = {}) =>
        LET wins == Windows(SourceW, SourceH, last.args.size_w, last.args.size_h)
        IN  \A n \in 1..Len(wins) :
               LET t == fs[TileName(last.args.dst, n)]
               IN  /\ t.kind = "raster"
                   /\ t.xsize = Min(last.args.size_w, SourceW - wins[n][1])
                   /\ t.ysize = Min(last.args.size_h, SourceH - wins[n][2])

\* C9: asArray of a path that cannot be opened ends in a failure raised to
\* the caller, never in a normal return, and a tiling of such a source
\* visits and writes no tile.
UnopenableSurfaced ==
    /\ (last.op = "asArray" /\ gdal_Open(last.before, last.args.path) = None)
          => last.outcome = "raised"
    /\ (last.op = "tiling" /\ gdal_Open(last.before, last.args.src) = None)
          => (last.outcome = "raised" /\ calls = << >>)

FnsCalled == [n \in 1..Len(calls) |-> calls[n].fn]

\* C5: merge builds the descriptor, materializes it, then deletes the
\* descriptor, in that order; a merge of sources that can be read returns
\* with the destination raster written and no descriptor left.
MergeOrder ==
    (/\ last.op = "merge"
     /\ \A n \in 1..Len(last.args.list_files) :
            gdal_Open(last.before, last.args.list_files[n]) # None)
    => /\ last.outcome = "returned"
       /\ FnsCalled = <<"BuildVRT", "Translate", "remove">>
       /\ fs[last.args.dst].kind = "raster"
       /\ fs[last.args.dst].by = "Translate"
       /\ ~isfile(fs, last.args.vrt)

WarpsIn(mode) == SelectSeq(calls, LAMBDA c : c.fn = "Warp" /\ c.opt[1] = mode)

\* C7: a resizing call runs the target-dimension warp only with xRes and
\* yRes both unset, the target-resolution warp only with width and height
\* both unset, and never both warps.
ResizeOneMode ==
    last.op = "resizing" =>
        /\ WarpsIn("dimension") # << >>
              => (last.args.xRes = None /\ last.args.yRes = None)
        /\ WarpsIn("resolution") # << >>
              => (last.args.width = None /\ last.args.height = None)
        /\ Len(CallsTo("Warp")) <= 1

\* at least one of width / height and at least one of xRes / yRes is set
Mixed(a) ==
    /\ a.width # None \/ a.height # None
    /\ a.xRes # None \/ a.yRes # None

\* C10: a resizing call with dimension and resolution parameters mixed
\* executes no warp, writes nothing (the file system is as before the
\* call) and returns normally.
ResizeMixedDoesNothing ==
    (last.op = "resizing" /\ Mixed(last.args)) =>
        /\ calls = << >>
        /\ fs = last.before
        /\ last.outcome = "returned"

\* a resizing call with width and yRes set, height and xRes unset, on a
\* source that exists, has returned
ResizeMixedWitness ==
    /\ last.op = "resizing"
    /\ last.args.width # None /\ last.args.height = None
    /\ last.args.xRes = None /\ last.args.yRes # None
    /\ isfile(last.before, last.args.src)
    /\ last.outcome = "returned"

\* p holds a raster that a save_tiff call created
MadeBySaveTiff(p) == fs[p].kind = "raster" /\ fs[p].by = "save_tiff"

\* save_tiff was given what it needs to write: a dtype it knows and
\* reference files that open
Writable(a, f) ==
    /\ KnownDtype(a.dtype)
    /\ gdal_Open(f, a.ref_proj) # None
    /\ gdal_Open(f, a.ref_geom) # None

\* C8: for every array of rank 2 (height x width) or rank 3 (height x width
\* x bands), writing it with save_tiff and reading it back with asArray,
\* band unset, preserves the shape: the raster is created with the array's
\* band count (1 for rank 2, the last-axis length for rank 3) and (width,
\* height), the write returns, and the array read back has the shape of
\* the array written.
RoundTripShape ==
    /\ \A p \in Paths :
           MadeBySaveTiff(p) =>
               LET s == fs[p].origin
               IN  /\ fs[p].bands = (IF Len(s) = 2 THEN 1 ELSE s[3])
                   /\ fs[p].xsize = s[2]
                   /\ fs[p].ysize = s[1]
    /\ (/\ last.op = "save_tiff"
        /\ Writable(last.args, last.before))
       => (last.outcome = "returned" /\ fs[last.args.dst_filename].complete)
    /\ (/\ last.op = "asArray"
        /\ last.args.band = None
        /\ MadeBySaveTiff(last.args.path)
        /\ fs[last.args.path].complete)
       => (last.outcome = "returned" /\ last.ret = fs[last.args.path].origin)

====
